---- MODULE Spec2Model ----
(***************************************************************************)
(* Model of the PICC store locator scripts (scripts/analyze-notion-data.js *)
(* and the Notion-to-JSON export that follows it in the same source file). *)
(*                                                                         *)
(* JavaScript values are tagged records: the field t is the value's kind   *)
(* ("undefined", "null", "string", "number", "array", "object"), so that   *)
(* truthiness, optional chaining and typeof are computed as the engine     *)
(* computes them.  A call that raises a TypeError evaluates to Throw.      *)
(***************************************************************************)
EXTENDS Integers, Sequences, FiniteSets, TLC

\* ------------------------------------------------------------------------
\* Bounds of the model
\* ------------------------------------------------------------------------
MaxPages == 3
MaxRecords == 3

\* ------------------------------------------------------------------------
\* JavaScript values
\* ------------------------------------------------------------------------
Undefined == [t |-> "undefined"]
Null == [t |-> "null"]
Throw == [t |-> "throw"]
Str(s) == [t |-> "string", s |-> s]
Num(n) == [t |-> "number", n |-> n]
Arr(a) == [t |-> "array", a |-> a]

\* v == null || v === undefined : the test behind ?. and behind a property read
Nullish(v) == v.t \in {"undefined", "null"}

\* ToBoolean(v), as used by !, || and the conditional operator
Truthy(v) ==
    /\ ~Nullish(v)
    /\ ~(v.t = "string" /\ v.s = "")
    /\ ~(v.t = "number" /\ v.n = 0)

\* a || null
OrNull(v) == IF Truthy(v) THEN v ELSE Null

\* ------------------------------------------------------------------------
\* Module-level configuration of the export script
\* ------------------------------------------------------------------------
VALID_ACCOUNT_STATUSES == <<"Customer", "Customer Overdue">>

PRODUCT_COLUMNS ==
    << <<"State of Mind 1G Customer", "State of Mind">>,
       <<"O-Yeah 1G Customer", "O-Yeah">>,
       <<"SUSHI Hash 1G Customer", "Sushi Hash">>,
       <<"SMACK 1G", "SMACK">>,
       <<"SMACK .5G", "SMACK">>,
       <<"ICHI- #JUAN 1G Customer", "ICHI">> >>

ProductPropNames == {PRODUCT_COLUMNS[i][1] : i \in 1..Len(PRODUCT_COLUMNS)}

PropNames ==
    {"Dispensary Name", "Address", "City", "Account Status",
     "Last Order Date", "Last Delivery Date", "Map Location"}
    \cup ProductPropNames

\* ------------------------------------------------------------------------
\* Field accessors of the export script
\* ------------------------------------------------------------------------

\* rt.plain_text as Array.prototype.join renders it: undefined and null
\* elements become the empty string
FragText(pt) == IF pt.t = "string" THEN pt.s ELSE ""

RECURSIVE JoinPlainText(_)
JoinPlainText(frags) ==
    IF frags = <<>> THEN ""
    ELSE FragText(Head(frags).plain_text) \o JoinPlainText(Tail(frags))

getPlainText(richTextArray) ==
    IF ~Truthy(richTextArray) \/ richTextArray.t # "array" THEN Null
    ELSE IF \E i \in 1..Len(richTextArray.a) : Nullish(richTextArray.a[i])
         THEN Throw
         ELSE OrNull(Str(JoinPlainText(richTextArray.a)))

getTitle(properties) ==
    LET titleProp == properties["Dispensary Name"] IN
    IF ~Truthy(titleProp) \/ titleProp.type # "title" THEN Null
    ELSE getPlainText(titleProp.title)

getStatus(properties) ==
    LET statusProp == properties["Account Status"] IN
    IF ~Truthy(statusProp) \/ statusProp.type # "status" THEN Null
    ELSE IF Nullish(statusProp.status) THEN Null
         ELSE OrNull(statusProp.status.name)

getRollupDate(properties, propName) ==
    LET prop == properties[propName] IN
    IF ~Truthy(prop) \/ prop.type # "rollup" THEN Null
    ELSE LET rollup == prop.rollup IN
         IF Nullish(rollup) THEN Throw
         ELSE IF rollup.type = "date" /\ Truthy(rollup.date)
              THEN OrNull(rollup.date.start)
              ELSE Null

getMapLocation(properties) ==
    LET placeProp == properties["Map Location"] IN
    IF ~Truthy(placeProp) \/ placeProp.type # "place" \/ ~Truthy(placeProp.place)
    THEN Null
    ELSE LET lat == placeProp.place.lat
             lon == placeProp.place.lon
         IN IF lat.t # "number" \/ lon.t # "number" THEN Null
            ELSE [t |-> "object", lat |-> lat, lng |-> lon]

\* new Set(), add() and Array.from(): insertion order, no repeated entry
SetAdd(products, displayName) ==
    IF \E i \in 1..Len(products) : products[i] = displayName
    THEN products
    ELSE Append(products, displayName)

\* the for...of loop of getProducts from entry k on, with the set built so far
RECURSIVE ProductsFrom(_, _, _)
ProductsFrom(properties, k, products) ==
    IF k > Len(PRODUCT_COLUMNS) THEN Arr(products)
    ELSE LET date == getRollupDate(properties, PRODUCT_COLUMNS[k][1]) IN
         IF date = Throw THEN Throw
         ELSE ProductsFrom(properties, k + 1,
                  IF Truthy(date) THEN SetAdd(products, PRODUCT_COLUMNS[k][2])
                  ELSE products)

getProducts(properties) == ProductsFrom(properties, 1, <<>>)

\* props['Address']?.rich_text
RichTextOf(prop) == IF Nullish(prop) THEN Undefined ELSE prop.rich_text

\* address ? (city ? `${address}, ${city}` : address) : null
AddressOf(address, city) ==
    IF Truthy(address)
    THEN (IF Truthy(city) THEN Str(address.s \o ", " \o city.s) ELSE address)
    ELSE Null

\* location?.lat || null
CoordOf(location, key) ==
    IF Nullish(location) THEN Null
    ELSE OrNull(IF key = "lat" THEN location.lat ELSE location.lng)

transformPage(page) ==
    LET props == page.properties
        name == getTitle(props)
        address == getPlainText(RichTextOf(props["Address"]))
        city == getPlainText(RichTextOf(props["City"]))
        status == getStatus(props)
        lastOrderDate == getRollupDate(props, "Last Order Date")
        lastDeliveryDate == getRollupDate(props, "Last Delivery Date")
        location == getMapLocation(props)
        products == getProducts(props)
    IN IF Throw \in {name, address, city, lastOrderDate, lastDeliveryDate, products}
       THEN Throw
       ELSE [t |-> "object",
             id |-> page.id,
             name |-> name,
             address |-> AddressOf(address, city),
             lat |-> CoordOf(location, "lat"),
             lng |-> CoordOf(location, "lng"),
             status |-> status,
             lastOrderDate |-> lastOrderDate,
             lastDeliveryDate |-> lastDeliveryDate,
             products |-> products]

\* VALID_ACCOUNT_STATUSES.includes(store.status)
StatusIncluded(status) ==
    /\ status.t = "string"
    /\ \E i \in 1..Len(VALID_ACCOUNT_STATUSES) : VALID_ACCOUNT_STATUSES[i] = status.s

\* Publishable without the whitelist test
Publishable_NoStatusCheck(store) ==
    IF ~Truthy(store.name) \/ ~Truthy(store.lat) \/ ~Truthy(store.lng) THEN FALSE
    ELSE TRUE

\* the predicate handed to stores.filter
Publishable(store) ==
    IF ~Truthy(store.name) \/ ~Truthy(store.lat) \/ ~Truthy(store.lng) THEN FALSE
    ELSE IF ~StatusIncluded(store.status) THEN FALSE
    ELSE TRUE

\* filterStores collecting the kept stores in reverse
RECURSIVE filterStores_Reversed(_)
filterStores_Reversed(stores) ==
    IF stores = <<>> THEN <<>>
    ELSE IF Publishable(Head(stores))
         THEN filterStores_Reversed(Tail(stores)) \o <<Head(stores)>>
         ELSE filterStores_Reversed(Tail(stores))

RECURSIVE filterStores(_)
filterStores(stores) ==
    IF stores = <<>> THEN <<>>
    ELSE IF Publishable(Head(stores))
         THEN <<Head(stores)>> \o filterStores(Tail(stores))
         ELSE filterStores(Tail(stores))

\* the projection of exportStores that drops the internal fields
OutputStore(store) ==
    [id |-> store.id,
     name |-> store.name,
     address |-> store.address,
     lat |-> store.lat,
     lng |-> store.lng,
     products |-> store.products,
     lastDelivery |-> IF Truthy(store.lastDeliveryDate)
                      THEN store.lastDeliveryDate
                      ELSE store.lastOrderDate]

\* ------------------------------------------------------------------------
\* Statistics of the analysis script
\* ------------------------------------------------------------------------

\* props['Account Status']?.status?.name || 'Unknown'
AnalysisStatus(props) ==
    LET prop == props["Account Status"]
        status == IF Nullish(prop) THEN Undefined ELSE prop.status
        name == IF Nullish(status) THEN Undefined ELSE status.name
    IN IF Truthy(name) THEN name.s ELSE "Unknown"

\* mapLoc && typeof mapLoc.lat === 'number'
AnalysisHasCoords(props) ==
    LET prop == props["Map Location"]
        mapLoc == IF Nullish(prop) THEN Undefined ELSE prop.place
    IN Truthy(mapLoc) /\ mapLoc.lat.t = "number"

\* props[propName]?.rollup?.date?.start
AnalysisDate(props, propName) ==
    LET prop == props[propName]
        rollup == IF Nullish(prop) THEN Undefined ELSE prop.rollup
        date == IF Nullish(rollup) THEN Undefined ELSE rollup.date
    IN IF Nullish(date) THEN Undefined ELSE date.start

AnalysisHasOrder(props) ==
    \/ Truthy(AnalysisDate(props, "Last Order Date"))
    \/ Truthy(AnalysisDate(props, "Last Delivery Date"))

\* the counters main prints (the 60-day list depends on the wall clock and
\* is left out)
AnalysisReport(recs) ==
    LET idx == 1..Len(recs)
        names == {AnalysisStatus(recs[i].properties) : i \in idx}
    IN [total |-> Len(recs),
        statuses |-> [n \in names |->
            Cardinality({i \in idx : AnalysisStatus(recs[i].properties) = n})],
        withCoords |-> Cardinality({i \in idx : AnalysisHasCoords(recs[i].properties)}),
        withOrders |-> Cardinality({i \in idx : AnalysisHasOrder(recs[i].properties)}),
        customerWithCoords |-> Cardinality({i \in idx :
            /\ AnalysisStatus(recs[i].properties) = "Customer"
            /\ AnalysisHasCoords(recs[i].properties)})]

\* ------------------------------------------------------------------------
\* Raw records of the remote database: the shapes a property can take
\* ------------------------------------------------------------------------
Frag(s) == [t |-> "object", plain_text |-> Str(s)]
FragNoText == [t |-> "object", plain_text |-> Undefined]

RichTexts ==
    {Undefined, Arr(<<>>), Arr(<<Frag("")>>), Arr(<<FragNoText>>), Arr(<<Null>>)}

TitleProp(title) == [t |-> "object", type |-> "title", title |-> title]
TitleProps ==
    {Undefined, [t |-> "object", type |-> "rich_text", title |-> Undefined]}
    \cup {TitleProp(rt) : rt \in RichTexts \cup {Arr(<<Frag("Acme")>>)}}

RichTextProp(rt) == [t |-> "object", type |-> "rich_text", rich_text |-> rt]
StreetProps ==
    {Undefined, [t |-> "object", type |-> "number", rich_text |-> Undefined]}
    \cup {RichTextProp(rt) : rt \in RichTexts
              \cup {Arr(<<Frag("1 Main"), Frag(" St")>>)}}
CityProps ==
    {Undefined, [t |-> "object", type |-> "number", rich_text |-> Undefined]}
    \cup {RichTextProp(rt) : rt \in RichTexts \cup {Arr(<<Frag("Reno")>>)}}

StatusProp(name) ==
    [t |-> "object", type |-> "status",
     status |-> [t |-> "object", name |-> name]]
StatusNames == {"Customer", "Customer Overdue", "Lead", "Churned", ""}
StatusProps ==
    {Undefined,
     [t |-> "object", type |-> "select", status |-> Undefined],
     [t |-> "object", type |-> "status", status |-> Undefined]}
    \cup {StatusProp(Str(n)) : n \in StatusNames}

RollupProp(rollup) == [t |-> "object", type |-> "rollup", rollup |-> rollup]
DateRollup(date) == RollupProp([t |-> "object", type |-> "date", date |-> date])
DateValue(start) == [t |-> "object", start |-> start]
RollupProps(day) ==
    {Undefined,
     [t |-> "object", type |-> "date", rollup |-> Undefined],
     RollupProp(Undefined),
     RollupProp([t |-> "object", type |-> "number", date |-> Undefined]),
     DateRollup(Null),
     DateRollup(DateValue(Null)),
     DateRollup(DateValue(Str(day)))}

PlaceProp(place) == [t |-> "object", type |-> "place", place |-> place]
Place(lat, lon) == [t |-> "object", lat |-> lat, lon |-> lon]
Lats == {Undefined, Num(0), Num(37)}
Lons == {Undefined, Num(0), Num(-122)}
PlaceProps ==
    {Undefined,
     [t |-> "object", type |-> "rich_text", place |-> Undefined],
     PlaceProp(Null)}
    \cup {PlaceProp(Place(lat, lon)) : lat \in Lats, lon \in Lons}

\* a well-formed customer with no product indicator
BaseProps ==
    [k \in PropNames |->
        CASE k = "Dispensary Name" -> TitleProp(Arr(<<Frag("Acme")>>))
          [] k = "Account Status" -> StatusProp(Str("Customer"))
          [] k = "Map Location" -> PlaceProp(Place(Num(37), Num(-122)))
          [] k = "Last Order Date" -> DateRollup(DateValue(Str("2024-01-01")))
          [] OTHER -> Undefined]

\* name, status and coordinates in every combination, with and without dates
CoreProps ==
    {[BaseProps EXCEPT !["Dispensary Name"] = n, !["Account Status"] = s,
                       !["Map Location"] = m, !["Last Order Date"] = o,
                       !["Last Delivery Date"] = d] :
        n \in TitleProps, s \in StatusProps, m \in PlaceProps,
        o \in {Undefined, DateRollup(DateValue(Str("2024-01-01")))},
        d \in {Undefined, DateRollup(DateValue(Str("2024-02-02")))}}

\* every shape of the two date rollups
DateProps ==
    {[BaseProps EXCEPT !["Last Order Date"] = o, !["Last Delivery Date"] = d] :
        o \in RollupProps("2024-01-01"), d \in RollupProps("2024-02-02")}

\* every shape of street and city
AddressProps ==
    {[BaseProps EXCEPT !["Address"] = a, !["City"] = c] :
        a \in StreetProps, c \in CityProps}

\* the product indicators: absent, dated or a rollup without its value, in
\* every combination, and the remaining rollup shapes on the SMACK pair
IndicatorProps == {Undefined, DateRollup(DateValue(Str("2024-03-03"))), RollupProp(Undefined)}
ProductProps ==
    {[k \in PropNames |-> IF k \in ProductPropNames THEN f[k] ELSE BaseProps[k]] :
        f \in [ProductPropNames -> IndicatorProps]}
    \cup {[BaseProps EXCEPT !["SMACK 1G"] = a, !["SMACK .5G"] = b,
                            !["Account Status"] = s] :
            a \in RollupProps("2024-03-03"), b \in RollupProps("2024-04-04"),
            s \in {StatusProp(Str("Customer")), StatusProp(Str("Lead"))}}

RawProps == CoreProps \cup DateProps \cup AddressProps \cup ProductProps

\* the records of the multi-page databases: a publishable customer, a lead,
\* and a customer whose indicator rollup lacks its value
SampleProps ==
    {[BaseProps EXCEPT !["Account Status"] = StatusProp(Str("Customer Overdue")),
                       !["SMACK 1G"] = DateRollup(DateValue(Str("2024-03-03"))),
                       !["SMACK .5G"] = DateRollup(DateValue(Str("2024-04-04"))),
                       !["Dispensary Name"] = TitleProp(Arr(<<Frag("Bud"), Frag("dy")>>)),
                       !["Address"] = RichTextProp(Arr(<<Frag("1 Main"), Frag(" St")>>)),
                       !["City"] = RichTextProp(Arr(<<Frag("Reno")>>)),
                       !["Last Delivery Date"] = DateRollup(DateValue(Str("2024-02-02")))],
     [BaseProps EXCEPT !["Account Status"] = StatusProp(Str("Lead"))],
     [BaseProps EXCEPT !["O-Yeah 1G Customer"] = RollupProp(Undefined)]}

SeqsUpTo(S, n) == UNION {[1..k -> S] : k \in 0..n}

\* the pages the server cuts a sequence of records into: page k ends after
\* record cuts[k], the last page at the end
Paged(recs, cuts) ==
    LET p == Len(cuts) + 1 IN
    [k \in 1..p |->
        SubSeq(recs,
               IF k = 1 THEN 1 ELSE cuts[k - 1] + 1,
               IF k = p THEN Len(recs) ELSE cuts[k])]

CutsOf(n) ==
    UNION {{c \in [1..q -> 0..n] : \A i \in 1..(q - 1) : c[i] <= c[i + 1]} :
              q \in 0..(MaxPages - 1)}

\* the remote database as the server pages it: up to MaxRecords sample
\* records on up to MaxPages pages, or one page with one record of RawProps
Databases ==
    UNION {{Paged(recs, c) : c \in CutsOf(Len(recs))} :
              recs \in SeqsUpTo(SampleProps, MaxRecords)}
    \cup {<< <<p>> >> : p \in RawProps}

\* ------------------------------------------------------------------------
\* State
\* ------------------------------------------------------------------------
VARIABLES
    script,         \* which script runs: "export" or "analyze"
    token,          \* NOTION_API_TOKEN is set
    db,             \* the remote database: a sequence of pages of properties
    pc,             \* position of main
    hasMore, nextCursor, pages,             \* locals of fetchAllPages
    requests,       \* start_cursor of every page request sent so far
    responses,      \* response.ok of every response received so far
    allStores, filteredStores, output,      \* locals of exportStores
    stdout,         \* documents echoed between the OUTPUT markers
    file,           \* content of stores.json
    stderr,         \* diagnostic of a failed run
    exitCode,       \* exit status of the process
    report          \* counters printed by the analysis script

vars == <<script, token, db, pc, hasMore, nextCursor, pages, requests,
          responses, allStores, filteredStores, output, stdout, file,
          stderr, exitCode, report>>

fetchVars == <<hasMore, nextCursor, pages, requests, responses>>
exportVars == <<allStores, filteredStores, output, stdout, file>>

\* ------------------------------------------------------------------------
\* The remote query endpoint
\* ------------------------------------------------------------------------
Cursor(k) == [t |-> "cursor", page |-> k]

RECURSIVE RecordsBefore(_)
RecordsBefore(k) == IF k <= 1 THEN 0 ELSE RecordsBefore(k - 1) + Len(db[k - 1])

\* the response body to { start_cursor, page_size }: has_more and
\* next_cursor lead through the pages of db in order
QueryDatabase(start_cursor) ==
    LET k == IF start_cursor.t = "cursor" THEN start_cursor.page ELSE 1 IN
    [results |-> [j \in 1..Len(db[k]) |->
                     [id |-> RecordsBefore(k) + j, properties |-> db[k][j]]],
     has_more |-> k < Len(db),
     next_cursor |-> IF k < Len(db) THEN Cursor(k + 1) ELSE Null]

\* ------------------------------------------------------------------------
\* Init
\* ------------------------------------------------------------------------
Init ==
    /\ script \in {"export", "analyze"}
    /\ token \in BOOLEAN
    /\ db \in Databases
    /\ pc = "start"
    /\ hasMore = TRUE
    /\ nextCursor = Undefined
    /\ pages = <<>>
    /\ requests = <<>>
    /\ responses = <<>>
    /\ allStores = <<>>
    /\ filteredStores = <<>>
    /\ output = Undefined
    /\ stdout = <<>>
    /\ file = Undefined
    /\ stderr = ""
    /\ exitCode = 0
    /\ report = Undefined

\* ------------------------------------------------------------------------
\* Export script
\* ------------------------------------------------------------------------

\* main: the credential check fails
ExportMissingToken ==
    /\ script = "export" /\ pc = "start"
    /\ ~token
    /\ stderr' = "Error: NOTION_API_TOKEN environment variable is required"
    /\ exitCode' = 1
    /\ pc' = "exited"
    /\ UNCHANGED <<script, token, db, fetchVars, exportVars, report>>

\* main: the credential is there, exportStores enters fetchAllPages
ExportStart ==
    /\ script = "export" /\ pc = "start"
    /\ token
    /\ pc' = "fetching"
    /\ hasMore' = TRUE
    /\ nextCursor' = Undefined
    /\ pages' = <<>>
    /\ UNCHANGED <<script, token, db, requests, responses, exportVars,
                   stderr, exitCode, report>>

\* FetchPage keeping only the latest batch
FetchPage_Overwrite ==
    /\ script = "export" /\ pc = "fetching"
    /\ hasMore
    /\ LET data == QueryDatabase(nextCursor) IN
        /\ requests' = Append(requests, nextCursor)
        /\ responses' = Append(responses, TRUE)
        /\ pages' = data.results
        /\ hasMore' = data.has_more
        /\ nextCursor' = data.next_cursor
        /\ pc' = IF data.has_more THEN "fetching" ELSE "fetched"
    /\ UNCHANGED <<script, token, db, exportVars, stderr, exitCode, report>>

\* one turn of the while loop, response.ok
FetchPage ==
    /\ script = "export" /\ pc = "fetching"
    /\ hasMore
    /\ LET data == QueryDatabase(nextCursor) IN
        /\ requests' = Append(requests, nextCursor)
        /\ responses' = Append(responses, TRUE)
        /\ pages' = pages \o data.results
        /\ hasMore' = data.has_more
        /\ nextCursor' = data.next_cursor
        /\ pc' = IF data.has_more THEN "fetching" ELSE "fetched"
    /\ UNCHANGED <<script, token, db, exportVars, stderr, exitCode, report>>

\* FetchPageError not raising: the pages fetched so far are returned
FetchPageError_Swallowed ==
    /\ script = "export" /\ pc = "fetching"
    /\ hasMore
    /\ requests' = Append(requests, nextCursor)
    /\ responses' = Append(responses, FALSE)
    /\ hasMore' = FALSE
    /\ pc' = "fetched"
    /\ UNCHANGED <<script, token, db, nextCursor, pages, exportVars, stderr,
                   exitCode, report>>

\* one turn of the while loop, !response.ok: the Error reaches the catch of main
FetchPageError ==
    /\ script = "export" /\ pc = "fetching"
    /\ hasMore
    /\ requests' = Append(requests, nextCursor)
    /\ responses' = Append(responses, FALSE)
    /\ stderr' = "Export failed: Notion API error"
    /\ exitCode' = 1
    /\ pc' = "exited"
    /\ UNCHANGED <<script, token, db, hasMore, nextCursor, pages, exportVars,
                   report>>

\* pages.map(transformPage): a TypeError of an accessor reaches the catch of main
TransformPages ==
    /\ script = "export" /\ pc = "fetched"
    /\ LET mapped == [i \in 1..Len(pages) |-> transformPage(pages[i])] IN
        IF \E i \in 1..Len(pages) : mapped[i] = Throw
        THEN /\ stderr' = "Export failed: TypeError"
             /\ exitCode' = 1
             /\ pc' = "exited"
             /\ UNCHANGED allStores
        ELSE /\ allStores' = mapped
             /\ pc' = "transformed"
             /\ UNCHANGED <<stderr, exitCode>>
    /\ UNCHANGED <<script, token, db, fetchVars, filteredStores, output,
                   stdout, file, report>>

FilterStores ==
    /\ script = "export" /\ pc = "transformed"
    /\ filteredStores' = filterStores(allStores)
    /\ pc' = "filtered"
    /\ UNCHANGED <<script, token, db, fetchVars, allStores, output, stdout,
                   file, stderr, exitCode, report>>

\* outputStores and output (the generated timestamp is left out)
AssembleOutput ==
    /\ script = "export" /\ pc = "filtered"
    /\ LET outputStores == [i \in 1..Len(filteredStores) |->
                               OutputStore(filteredStores[i])] IN
        output' = [t |-> "object",
                   count |-> Len(outputStores),
                   stores |-> outputStores]
    /\ pc' = "assembled"
    /\ UNCHANGED <<script, token, db, fetchVars, allStores, filteredStores,
                   stdout, file, stderr, exitCode, report>>

\* main: echo the document, then writeFileSync; the JSON text is
\* represented by the document it serialises
WriteOutput ==
    /\ script = "export" /\ pc = "assembled"
    /\ stdout' = Append(stdout, output)
    /\ file' = output
    /\ pc' = "done"
    /\ UNCHANGED <<script, token, db, fetchVars, allStores, filteredStores,
                   output, stderr, exitCode, report>>

\* main: writeFileSync raises, the catch of main exits
WriteError ==
    /\ script = "export" /\ pc = "assembled"
    /\ stdout' = Append(stdout, output)
    /\ stderr' = "Export failed: write"
    /\ exitCode' = 1
    /\ pc' = "exited"
    /\ UNCHANGED <<script, token, db, fetchVars, allStores, filteredStores,
                   output, file, report>>

\* ------------------------------------------------------------------------
\* Analysis script
\* ------------------------------------------------------------------------

\* main calls fetchAllPages at once
AnalyzeStart ==
    /\ script = "analyze" /\ pc = "start"
    /\ pc' = "fetching"
    /\ hasMore' = TRUE
    /\ nextCursor' = Undefined
    /\ pages' = <<>>
    /\ UNCHANGED <<script, token, db, requests, responses, exportVars,
                   stderr, exitCode, report>>

\* one turn of the while loop, success response
AnalyzeFetchPage ==
    /\ script = "analyze" /\ pc = "fetching"
    /\ hasMore
    /\ LET data == QueryDatabase(nextCursor) IN
        /\ requests' = Append(requests, nextCursor)
        /\ responses' = Append(responses, TRUE)
        /\ pages' = pages \o data.results
        /\ hasMore' = data.has_more
        /\ nextCursor' = data.next_cursor
        /\ pc' = IF data.has_more THEN "fetching" ELSE "fetched"
    /\ UNCHANGED <<script, token, db, exportVars, stderr, exitCode, report>>

\* one turn of the while loop, error response: response.ok is not read, the
\* body carries no results, the spread raises and the rejection of main is
\* not handled, which ends the process with status 1
AnalyzeFetchError ==
    /\ script = "analyze" /\ pc = "fetching"
    /\ hasMore
    /\ requests' = Append(requests, nextCursor)
    /\ responses' = Append(responses, FALSE)
    /\ stderr' = "Uncaught TypeError"
    /\ exitCode' = 1
    /\ pc' = "exited"
    /\ UNCHANGED <<script, token, db, hasMore, nextCursor, pages, exportVars,
                   report>>

AnalyzeReport ==
    /\ script = "analyze" /\ pc = "fetched"
    /\ report' = AnalysisReport(pages)
    /\ pc' = "done"
    /\ UNCHANGED <<script, token, db, fetchVars, exportVars, stderr, exitCode>>

\* ------------------------------------------------------------------------
\* Specification
\* ------------------------------------------------------------------------
Next ==
    \/ ExportMissingToken
    \/ ExportStart
    \/ FetchPage
    \/ FetchPageError
    \/ TransformPages
    \/ FilterStores
    \/ AssembleOutput
    \/ WriteOutput
    \/ WriteError
    \/ AnalyzeStart
    \/ AnalyzeFetchPage
    \/ AnalyzeFetchError
    \/ AnalyzeReport

Spec == Init /\ [][Next]_vars

\* ------------------------------------------------------------------------
\* Vocabulary of the properties
\* ------------------------------------------------------------------------
RECURSIVE Flatten(_)
Flatten(d) == IF d = <<>> THEN <<>> ELSE Head(d) \o Flatten(Tail(d))

\* every record of the database in the order the server pages it
AllRecords ==
    LET f == Flatten(db) IN
    [n \in 1..Len(f) |-> [id |-> n, properties |-> f[n]]]

AllResponsesOk == \A i \in 1..Len(responses) : responses[i]

\* the export run is past pages.map(transformPage)
TransformCalled ==
    /\ script = "export"
    /\ pc \notin {"start", "fetching", "fetched"}
    /\ AllResponsesOk

\* the export run holds the normalized stores
Transformed ==
    script = "export" /\ pc \in {"transformed", "filtered", "assembled", "done"}

\* the export run is past filterStores
Filtered == script = "export" /\ pc \in {"filtered", "assembled", "done"}

IdsOf(stores) == [j \in 1..Len(stores) |-> stores[j].id]

InSeq(x, q) == \E j \in 1..Len(q) : q[j] = x

NamePresent(props) == getTitle(props).t = "string"
StreetOf(props) == getPlainText(RichTextOf(props["Address"]))
CityOf(props) == getPlainText(RichTextOf(props["City"]))

\* ------------------------------------------------------------------------
\* C1
\* ------------------------------------------------------------------------

\* C1: every fetched record with a name, a whitelisted status and numeric
\* lat and lon is among the filtered stores, a coordinate of 0 included.
C1_NumericCoordinatesSurvive ==
    Filtered =>
        \A i \in 1..Len(pages) :
            LET props == pages[i].properties IN
            (/\ NamePresent(props)
             /\ StatusIncluded(getStatus(props))
             /\ getMapLocation(props) # Null)
            => InSeq(pages[i].id, IdsOf(filteredStores))

\* ------------------------------------------------------------------------
\* C2
\* ------------------------------------------------------------------------

\* C2: no accessor and no call of transformPage raises on any fetched
\* record, and the export run does not end on a TypeError.
C2_NoAccessorRaises ==
    TransformCalled =>
        /\ stderr # "Export failed: TypeError"
        /\ \A i \in 1..Len(pages) :
            LET props == pages[i].properties IN
            /\ getTitle(props) # Throw
            /\ StreetOf(props) # Throw
            /\ CityOf(props) # Throw
            /\ getStatus(props) # Throw
            /\ getMapLocation(props) # Throw
            /\ \A n \in PropNames : getRollupDate(props, n) # Throw
            /\ getProducts(props) # Throw
            /\ transformPage(pages[i]) # Throw

\* ------------------------------------------------------------------------
\* C3
\* ------------------------------------------------------------------------

\* C3: in an export run a non-success response is the last response of the
\* run, which has exited with status 1 and without writing the file; the
\* file is written only when every page was fetched and holds the filtered
\* set of all records.
C3_TransportFailureAborts ==
    script = "export" =>
        /\ \A i \in 1..Len(responses) :
            ~responses[i] =>
                /\ i = Len(requests)
                /\ pc = "exited"
                /\ exitCode = 1
                /\ file = Undefined
        /\ file # Undefined =>
                /\ AllResponsesOk
                /\ Len(requests) = Len(db)
                /\ pages = AllRecords
                /\ IdsOf(file.stores) =
                       IdsOf(SelectSeq(AllRecords,
                           LAMBDA r : Publishable(transformPage(r))))

\* C3 is exercised: a later page request failed after an earlier page had
\* been fetched.
C3_Witness ==
    /\ script = "export"
    /\ Len(responses) >= 2
    /\ responses[1]
    /\ ~responses[Len(responses)]
    /\ pages # <<>>
    /\ pc = "exited"

\* ------------------------------------------------------------------------
\* C4
\* ------------------------------------------------------------------------

RECURSIVE ResultsOf(_)
ResultsOf(reqs) ==
    IF reqs = <<>> THEN <<>>
    ELSE ResultsOf(SubSeq(reqs, 1, Len(reqs) - 1))
         \o QueryDatabase(reqs[Len(reqs)]).results

\* C4: the first request carries no cursor, every later one the next_cursor
\* of the response before it, which had has_more set; while every response
\* is a success the accumulated pages are the batches in arrival order, and
\* when fetchAllPages has returned the last response had has_more false and
\* the pages are all records of the database in order.
C4_PaginationComplete ==
    /\ requests # <<>> => requests[1] = Undefined
    /\ \A i \in 2..Len(requests) :
        /\ responses[i - 1]
        /\ QueryDatabase(requests[i - 1]).has_more
        /\ requests[i] = QueryDatabase(requests[i - 1]).next_cursor
    /\ AllResponsesOk => pages = ResultsOf(requests)
    /\ pc \in {"fetched", "transformed", "filtered", "assembled", "done"} =>
        /\ ~QueryDatabase(requests[Len(requests)]).has_more
        /\ Len(requests) = Len(db)
        /\ pages = AllRecords

\* C4 is exercised: fetchAllPages returned after more than one page, with
\* batches of different sizes.
C4_Witness ==
    /\ pc = "fetched"
    /\ Len(requests) = 3
    /\ Len(db[1]) = 1
    /\ Len(db[2]) = 1
    /\ Len(db[3]) = 0
    /\ Len(pages) = 2

\* ------------------------------------------------------------------------
\* C5
\* ------------------------------------------------------------------------

DocHasId(doc, id) == doc # Undefined /\ InSeq(id, IdsOf(doc.stores))

\* C5: no fetched record whose status is outside the whitelist is among the
\* filtered stores, in the export document, in the echoed document or in the
\* file.
C5_StatusWhitelist ==
    \A i \in 1..Len(pages) :
        LET props == pages[i].properties IN
        (getStatus(props) # Throw /\ ~StatusIncluded(getStatus(props))) =>
            /\ ~InSeq(pages[i].id, IdsOf(filteredStores))
            /\ ~DocHasId(output, pages[i].id)
            /\ ~DocHasId(file, pages[i].id)
            /\ \A k \in 1..Len(stdout) : ~DocHasId(stdout[k], pages[i].id)

\* C5 is exercised: a written document kept a customer and dropped a lead
\* that has a name and coordinates.
C5_Witness ==
    /\ file # Undefined
    /\ file.count >= 1
    /\ \E i \in 1..Len(pages) :
        LET props == pages[i].properties IN
        /\ getStatus(props) = Str("Lead")
        /\ NamePresent(props)
        /\ getMapLocation(props) = [t |-> "object", lat |-> Num(37), lng |-> Num(-122)]

\* ------------------------------------------------------------------------
\* C6
\* ------------------------------------------------------------------------

\* C6: without NOTION_API_TOKEN no page request is ever sent, and a process
\* that has ended has exited with status 1.
C6_NoRequestWithoutToken ==
    ~token =>
        /\ requests = <<>>
        /\ pc \in {"done", "exited"} => exitCode = 1

\* ------------------------------------------------------------------------
\* C7
\* ------------------------------------------------------------------------

\* C7: every normalized store has lat and lng both present or both absent.
C7_CoordinatesPaired ==
    Transformed =>
        \A i \in 1..Len(allStores) :
            (allStores[i].lat = Null) <=> (allStores[i].lng = Null)

\* ------------------------------------------------------------------------
\* C8
\* ------------------------------------------------------------------------

\* the address the claim names for a street and a city
ClaimedAddress(street, city) ==
    IF street.t = "string" /\ city.t = "string"
    THEN Str(street.s \o ", " \o city.s)
    ELSE IF street.t = "string" THEN street
    ELSE IF city.t = "string" THEN city
    ELSE Null

\* C8: the address of every normalized store is "street, city" when both
\* are present, the one that is present when only one is, and null when
\* neither is.
C8_AddressJoin ==
    Transformed =>
        \A i \in 1..Len(allStores) :
            LET props == pages[i].properties IN
            allStores[i].address = ClaimedAddress(StreetOf(props), CityOf(props))

\* ------------------------------------------------------------------------
\* C9
\* ------------------------------------------------------------------------

DisplayNames == {PRODUCT_COLUMNS[k][2] : k \in 1..Len(PRODUCT_COLUMNS)}

IndicatorPresent(props, D) ==
    \E k \in 1..Len(PRODUCT_COLUMNS) :
        /\ PRODUCT_COLUMNS[k][2] = D
        /\ getRollupDate(props, PRODUCT_COLUMNS[k][1]).t = "string"

\* the result is a list without repetition holding exactly the display
\* names with a present indicator
ProductsAsClaimed(props, r) ==
    /\ r.t = "array"
    /\ \A a, b \in 1..Len(r.a) : r.a[a] = r.a[b] => a = b
    /\ \A D \in DisplayNames : InSeq(D, r.a) <=> IndicatorPresent(props, D)

\* C9: for every fetched record handed to transformPage, getProducts
\* returns a list without repetition that holds a display name exactly when
\* one of its indicator fields has a present rollup date.
C9_ProductsDeduplicated ==
    TransformCalled =>
        \A i \in 1..Len(pages) :
            ProductsAsClaimed(pages[i].properties, getProducts(pages[i].properties))

\* ------------------------------------------------------------------------
\* C10
\* ------------------------------------------------------------------------

\* C10: the stores of the export document are the projections of the fetched
\* records that pass the filter, in the order of the fetched records, and
\* count is their number.
C10_OrderAndCount ==
    output # Undefined =>
        LET kept == SelectSeq(pages, LAMBDA r : Publishable(transformPage(r))) IN
        /\ output.count = Len(output.stores)
        /\ Len(output.stores) = Len(kept)
        /\ \A j \in 1..Len(kept) :
            output.stores[j] = OutputStore(transformPage(kept[j]))
        /\ \A a, b \in 1..Len(output.stores) :
            a < b => output.stores[a].id < output.stores[b].id

\* C10 is exercised: a document with two stores was assembled from fetched
\* records of which one was filtered out between them.
C10_Witness ==
    /\ output # Undefined
    /\ output.count = 2
    /\ Len(pages) = 3
    /\ output.stores[1].id = 1
    /\ output.stores[2].id = 3

====
